---- MODULE Spec2Model ----
(***************************************************************************)
(* Model of moonfrog/go-metrics: the StandardRegistry / PrefixedRegistry   *)
(* (registry.go), the tag codec (tag.go), the InstantCounter (instant.go)  *)
(* and the batching Optron exporter (optron/optron.go).                    *)
(*                                                                         *)
(* Strings are sequences of one-character strings, so that concatenation,  *)
(* prefix tests, strings.Split and sort.Strings are computed, not assumed. *)
(***************************************************************************)
EXTENDS Integers, Sequences, FiniteSets, TLC

VARIABLES
    \* ---- registry.go: StandardRegistry + goroutines calling it
    metrics,    \* StandardRegistry.metrics : map[string]Metric (name -> instance id)
    mutex,      \* StandardRegistry.mutex   : [w |-> writer or "none", r |-> set of readers]
    heap,       \* the metric instances ever constructed: id -> [kind, val]
    pc,         \* per goroutine: position in the code it runs
    req,        \* per goroutine: the registry call being executed (operation, arguments)
    ctx,        \* per goroutine: where the current call returns to
    loc,        \* per goroutine: local variables of the running operations
    ret,        \* per goroutine: result of the last completed call
    hist,       \* observation log of the calls (what a test harness would record)
    \* ---- tag.go
    tb,         \* a TagBoard value
    tname,      \* a base metric name
    tagged,     \* result of TaggedMetricName
    parsed,     \* result of ParseTaggedMetric
    tphase,     \* position of the codec driver
    \* ---- optron/optron.go
    opt         \* the Optron exporter, its builder, the connection and the wire

regVars == <<metrics, mutex, heap, pc, req, ctx, loc, ret, hist>>
tagVars == <<tb, tname, tagged, parsed, tphase>>
vars    == <<metrics, mutex, heap, pc, req, ctx, loc, ret, hist,
             tb, tname, tagged, parsed, tphase, opt>>

-----------------------------------------------------------------------------
(* Strings *)

\* The characters used, in ascending byte order (. A G T a b c p |).
Alphabet == <<".", "A", "G", "T", "a", "b", "c", "p", "|">>

CharOrd(c) == CHOOSE i \in 1..Len(Alphabet) : Alphabet[i] = c

MinOf(a, b) == IF a <= b THEN a ELSE b

\* Go's string comparison: bytewise lexicographic.
RECURSIVE StrLess(_, _)
StrLess(a, b) ==
    IF b = <<>> THEN FALSE
    ELSE IF a = <<>> THEN TRUE
    ELSE IF Head(a) # Head(b) THEN CharOrd(Head(a)) < CharOrd(Head(b))
    ELSE StrLess(Tail(a), Tail(b))

\* strings.HasPrefix
HasPrefix(s, p) == Len(p) <= Len(s) /\ SubSeq(s, 1, Len(p)) = p

\* strings.Index, 1-based; 0 when sep does not occur
StrIndex(s, sep) ==
    LET hits == {i \in 1..(Len(s) - Len(sep) + 1) : SubSeq(s, i, i + Len(sep) - 1) = sep}
    IN  IF hits = {} THEN 0 ELSE CHOOSE i \in hits : \A j \in hits : i <= j

\* strings.Contains
StrContains(s, sep) == StrIndex(s, sep) # 0

\* strings.Split for a non-empty separator
RECURSIVE StrSplit(_, _)
StrSplit(s, sep) ==
    LET i == StrIndex(s, sep)
    IN  IF i = 0 THEN <<s>>
        ELSE <<SubSeq(s, 1, i - 1)>> \o StrSplit(SubSeq(s, i + Len(sep), Len(s)), sep)

\* Mutation of SortStrings: the keys are left in an order that is not ascending
\* (what ranging over the map without sort.Strings may produce)
RECURSIVE SortStringsDescending(_)
SortStringsDescending(S) ==
    IF S = {} THEN <<>>
    ELSE LET m == CHOOSE x \in S : \A y \in S : x = y \/ StrLess(y, x)
         IN  <<m>> \o SortStringsDescending(S \ {m})

\* sort.Strings applied to the keys of a set: ascending, by repeated minimum
RECURSIVE SortStrings(_)
SortStrings(S) ==
    IF S = {} THEN <<>>
    ELSE LET m == CHOOSE x \in S : \A y \in S : x = y \/ StrLess(x, y)
         IN  <<m>> \o SortStrings(S \ {m})

-----------------------------------------------------------------------------
(* tag.go *)

TAG_DELIMITER == <<"|">>
TAG_METRIC_DELIMITER == <<"T", "A", "G">>

TagKeys == <<"ns", "grp", "tgt", "act", "sub">>

EmptyTagBoard == [Ns |-> <<>>, Grp |-> <<>>, Tgt |-> <<>>, Act |-> <<>>, Sub |-> <<>>]

\* TagBoard.String: Ns, then "|"+field for every non-empty later field
RECURSIVE JoinNonEmpty(_, _)
JoinNonEmpty(tagStr, tags) ==
    IF tags = <<>> THEN tagStr
    ELSE JoinNonEmpty(IF Head(tags) # <<>> THEN tagStr \o TAG_DELIMITER \o Head(tags)
                                           ELSE tagStr,
                      Tail(tags))

TagBoardString(t) == JoinNonEmpty(t.Ns, <<t.Grp, t.Tgt, t.Act, t.Sub>>)

\* NewTagBoard: fill the fields in order, stop at the first empty tag
RECURSIVE FillTagBoard(_, _, _)
FillTagBoard(t, tags, i) ==
    IF i > Len(tags) \/ tags[i] = <<>> THEN t
    ELSE FillTagBoard(
            CASE i = 1 -> [t EXCEPT !.Ns  = tags[i]]
              [] i = 2 -> [t EXCEPT !.Grp = tags[i]]
              [] i = 3 -> [t EXCEPT !.Tgt = tags[i]]
              [] i = 4 -> [t EXCEPT !.Act = tags[i]]
              [] i = 5 -> [t EXCEPT !.Sub = tags[i]]
              [] OTHER -> t,
            tags, i + 1)

NewTagBoard(tags) == FillTagBoard(EmptyTagBoard, tags, 1)

\* tagMap: positional decoding of the "|"-separated left side
tagMap(tbString) ==
    LET tags == StrSplit(tbString, TAG_DELIMITER)
        n    == MinOf(Len(tags), Len(TagKeys))
    IN  [k \in {TagKeys[i] : i \in 1..n} |->
            tags[CHOOSE i \in 1..n : TagKeys[i] = k]]

TaggedMetricName(name, t) == TagBoardString(t) \o TAG_METRIC_DELIMITER \o name

IsTagged(name) == StrContains(name, TAG_METRIC_DELIMITER)

\* ParseTaggedMetric: fields[1] and tagMap(fields[0]); indexing fields[1]
\* panics when the marker is absent, which callers exclude with IsTagged.
ParseTaggedMetric(name) ==
    LET fields == StrSplit(name, TAG_METRIC_DELIMITER)
    IN  [name |-> fields[2], tags |-> tagMap(fields[1])]

-----------------------------------------------------------------------------
(* Model bounds *)

MaxCalls   == 3   \* registry calls the application goroutines issue in a run
MaxTags    == 3   \* number of arguments given to NewTagBoard
MaxBatch   == 2   \* largest configured BatchSize
MaxFlush   == 3   \* payloads flush builds before the model stops following it
MaxCycles  == 2   \* export cycles (ticks) followed

-----------------------------------------------------------------------------
(* Metric instances *)

\* Go's nil Metric (what r.metrics[name] yields for an absent name)
NoMetric == 0

\* The closed set of metric kinds, and a value that is none of them
MetricKinds == {"Counter", "Gauge", "GaugeFloat64", "Healthcheck",
                "Histogram", "Meter", "Timer", "Instant"}

\* The interfaces a concrete value satisfies (what a Go type switch tests).
\* Counter's method set holds Instant's (Clear, Count, Dec, Inc, Update):
\* StandardRegistry.Update assigns a Counter to a Metric and calls Update on it.
Implements(kind) ==
    CASE kind = "Counter" -> {"Counter", "Instant"}
      [] kind = "Other"   -> {}
      [] OTHER            -> {kind}

NewInstance(kind) == [kind |-> kind, val |-> 0]

\* InstantCounter.Inc / Update: atomic add
InstantInc(h, id, v) == [h EXCEPT ![id].val = @ + v]

\* (variant: Clear leaves the count)
InstantClearKeeps(h, id) == h

\* InstantCounter.Clear: atomic store of zero
InstantClear(h, id) == [h EXCEPT ![id].val = 0]

\* Metric.Update(int64) of the kinds: a counter adds, a gauge stores
UpdateMetric(h, id, v) ==
    CASE h[id].kind \in {"Counter", "Instant"} -> InstantInc(h, id, v)
      [] h[id].kind = "Gauge"                  -> [h EXCEPT ![id].val = v]
      [] OTHER                                 -> h

-----------------------------------------------------------------------------
(* registry.go: StandardRegistry *)

\* r.metrics[name]: the instance, or nil
Lookup(m, name) == IF name \in DOMAIN m THEN m[name] ELSE NoMetric

\* sync.RWMutex
CanLock(mu)     == mu.w = "none" /\ mu.r = {}
CanRLock(mu)    == mu.w = "none"
Lock(mu, t)     == [mu EXCEPT !.w = t]
Unlock(mu, t)   == [mu EXCEPT !.w = "none"]
RLock(mu, t)    == [mu EXCEPT !.r = @ \cup {t}]
RUnlock(mu, t)  == [mu EXCEPT !.r = @ \ {t}]

\* Mutation of register: the duplicate is reported, but after the entry was stored
registerReplaces(m, h, name, i) ==
    [metrics |-> [n \in DOMAIN m \cup {name} |-> IF n = name THEN i ELSE m[n]],
     heap    |-> h,
     err     |-> IF name \in DOMAIN m THEN "DuplicateMetric" ELSE "nil"]

\* (variant: register stores a value of any type)
registerStoresAny(m, h, name, i) ==
    IF name \in DOMAIN m
    THEN [metrics |-> m, heap |-> h, err |-> "DuplicateMetric"]
    ELSE [metrics |-> (name :> i) @@ m, heap |-> h, err |-> "nil"]

\* StandardRegistry.register (assumes lock is taken): the map, the heap (the
\* GaugeFloat64 case constructs a Gauge) and the error
register(m, h, name, i) ==
    IF name \in DOMAIN m
    THEN [metrics |-> m, heap |-> h, err |-> "DuplicateMetric"]
    ELSE IF Implements(h[i].kind) \cap {"Counter", "Gauge", "Healthcheck", "Histogram",
                                        "Meter", "Timer", "Instant"} # {}
    THEN [metrics |-> (name :> i) @@ m, heap |-> h, err |-> "nil"]
    ELSE IF "GaugeFloat64" \in Implements(h[i].kind)
    THEN [metrics |-> (name :> (Len(h) + 1)) @@ m,
          heap    |-> Append(h, NewInstance("Gauge")),
          err     |-> "nil"]
    ELSE [metrics |-> m, heap |-> h, err |-> "nil"]

\* StandardRegistry.registered: a copy of the map, taken under RLock and released
registered(m) == [name \in DOMAIN m |-> m[name]]

\* delete(r.metrics, name)
MapDelete(m, name) == [n \in DOMAIN m \ {name} |-> m[n]]

\* make(map[string]Metric)
EmptyMap == [n \in {} |-> NoMetric]

-----------------------------------------------------------------------------
(* registry.go: PrefixedRegistry *)

\* The registry objects of the model: the root StandardRegistry, a prefixed
\* view over it (NewPrefixedChildRegistry(root, "p.")) and a view over that view.
Registries ==
    [root |-> [type |-> "Standard", underlying |-> "none", prefix |-> <<>>],
     api  |-> [type |-> "Prefixed", underlying |-> "root", prefix |-> <<"p", ".">>],
     sub  |-> [type |-> "Prefixed", underlying |-> "api",  prefix |-> <<"a", ".">>]]

\* Mutation of PrefixedArg: Unregister forgets the prefix
PrefixedArgBareUnregister(view, op, name) ==
    IF op \in {"Get", "GetOrRegister", "Register"}
    THEN Registries[view].prefix \o name
    ELSE name

\* The name a PrefixedRegistry method hands to r.underlying: Get, GetOrRegister,
\* Register and Unregister pass r.prefix + name; Update passes name as it is.
PrefixedArg(view, op, name) ==
    IF op \in {"Get", "GetOrRegister", "Register", "Unregister"}
    THEN Registries[view].prefix \o name
    ELSE name

\* The chain of delegations down to the StandardRegistry
RECURSIVE RealName(_, _, _)
RealName(reg, op, name) ==
    IF Registries[reg].type = "Standard" THEN name
    ELSE RealName(Registries[reg].underlying, op, PrefixedArg(reg, op, name))

\* (variant: findPrefix appends the prefix of the registry below)
RECURSIVE findPrefixReversed(_, _)
findPrefixReversed(reg, prefix) ==
    IF Registries[reg].type = "Prefixed"
    THEN findPrefixReversed(Registries[reg].underlying, prefix \o Registries[reg].prefix)
    ELSE [base |-> reg, prefix |-> prefix]

\* findPrefix: the root registry and the concatenation of the prefixes
RECURSIVE findPrefix(_, _)
findPrefix(reg, prefix) ==
    IF Registries[reg].type = "Prefixed"
    THEN findPrefix(Registries[reg].underlying, Registries[reg].prefix \o prefix)
    ELSE [base |-> reg, prefix |-> prefix]

-----------------------------------------------------------------------------
(* Goroutines calling the registry *)

App   == {"g1", "g2"}          \* application goroutines
Procs == App \cup {"optron"}   \* and the exporter's goroutine

ReqNone == [op |-> "none", via |-> "root", vname |-> <<>>, name |-> <<>>,
            kind |-> "none", isFn |-> FALSE, m |-> NoMetric, val |-> 0]
RetNone == [m |-> NoMetric, err |-> "nil"]
LocInit == [keys |-> <<>>, idx |-> 0, arg |-> NoMetric, prefix |-> <<>>, back |-> "idle",
            m |-> NoMetric, todo |-> {}, cur |-> NoMetric]

HistInit ==
    [gorRet  |-> {},      \* <<name, id>>: GetOrRegister(name, _) returned id
     gorNew  |-> {},      \* <<name, id>>: a GetOrRegister(name, ctor) call made ctor build id
     direct  |-> {},      \* names registered with an instance the caller built
     updSum  |-> [n \in {} |-> 0],   \* name -> sum of the values of returned Update calls
     nCalls  |-> 0,       \* registry calls issued
     snap    |-> [t \in Procs |-> {}],     \* names registered when t's Each took its copy
     snapMap |-> [t \in Procs |-> EmptyMap],  \* the copy of the map t's Each took
     visited |-> [t \in Procs |-> <<>>],   \* (name, instance) pairs t's visitor was given
     nested  |-> [t \in Procs |-> {}],    \* operations t's visitor called during this Each
     eachEnd |-> [t \in Procs |-> FALSE]] \* t's last Each has returned

RegInit ==
    /\ metrics = EmptyMap
    /\ mutex = [w |-> "none", r |-> {}]
    /\ heap = <<>>
    /\ pc = [t \in Procs |-> "idle"]
    /\ req = [t \in Procs |-> ReqNone]
    /\ ctx = [t \in Procs |-> "idle"]
    /\ loc = [t \in Procs |-> LocInit]
    /\ ret = [t \in Procs |-> RetNone]
    /\ hist = HistInit

SumOf(f, name) == IF name \in DOMAIN f THEN f[name] ELSE 0

\* The call returns to its caller with a result
Return(t, result) ==
    /\ pc'  = [pc  EXCEPT ![t] = ctx[t]]
    /\ ctx' = [ctx EXCEPT ![t] = "idle"]
    /\ ret' = [ret EXCEPT ![t] = result]
    /\ req' = [req EXCEPT ![t] = ReqNone]

Constructs(op) == op \in {"Register", "GetOrRegister"}

\* A goroutine (at top level, or inside a callback the registry invoked) calls
\* operation op of registry object via. Register and a GetOrRegister given a
\* value pass an instance the caller built; a GetOrRegister given a function
\* passes a constructor of kind.
Call(t, via, op, vname, kind, isFn, val) ==
    /\ pc[t] \in {"idle", "visit", "ctor", "check"}
    /\ pc[t] # "idle" => op # "Each"
    /\ hist.nCalls < MaxCalls
    /\ LET fresh == Constructs(op) /\ ~isFn
           name  == RealName(via, op, vname)
       IN  /\ heap' = IF fresh THEN Append(heap, NewInstance(kind)) ELSE heap
           /\ req' = [req EXCEPT ![t] =
                        [op |-> op, via |-> via, vname |-> vname, name |-> name,
                         kind |-> kind, isFn |-> isFn,
                         m |-> IF fresh THEN Len(heap) + 1 ELSE NoMetric, val |-> val]]
           /\ hist' = [hist EXCEPT
                        !.nCalls = @ + 1,
                        !.nested[t] = IF pc[t] = "visit" THEN @ \cup {op}
                                      ELSE IF pc[t] = "idle" THEN {} ELSE @,
                        !.snap[t] = IF pc[t] = "idle" THEN {} ELSE @,
                        !.snapMap[t] = IF pc[t] = "idle" THEN EmptyMap ELSE @,
                        !.visited[t] = IF pc[t] = "idle" THEN <<>> ELSE @,
                        !.eachEnd[t] = IF pc[t] = "idle" THEN FALSE ELSE @]
    /\ pc' = [pc EXCEPT ![t] = "call"]
    /\ ctx' = [ctx EXCEPT ![t] = IF pc[t] = "visit" THEN "visit" ELSE @]
    /\ ret' = [ret EXCEPT ![t] = IF pc[t] = "idle" THEN RetNone ELSE @]
    /\ UNCHANGED <<metrics, mutex, loc>>
    /\ UNCHANGED <<tagVars, opt>>

\* StandardRegistry.Get
Get(t) ==
    /\ pc[t] = "call" /\ req[t].op = "Get"
    /\ CanRLock(mutex)
    /\ Return(t, [m |-> Lookup(metrics, req[t].name), err |-> "nil"])
    /\ UNCHANGED <<metrics, mutex, heap, loc, hist>>
    /\ UNCHANGED <<tagVars, opt>>

\* StandardRegistry.GetOrRegister up to the call of the constructor
GetOrRegister(t) ==
    /\ pc[t] = "call" /\ req[t].op = "GetOrRegister"
    /\ CanLock(mutex)
    /\ LET name == req[t].name IN
       IF name \in DOMAIN metrics
       THEN /\ Return(t, [m |-> metrics[name], err |-> "nil"])
            /\ hist' = [hist EXCEPT !.gorRet = @ \cup {<<name, metrics[name]>>}]
            /\ UNCHANGED <<metrics, mutex, heap, loc>>
       ELSE IF req[t].isFn
       THEN /\ mutex' = Lock(mutex, t)
            /\ pc' = [pc EXCEPT ![t] = "ctor"]
            /\ UNCHANGED <<metrics, heap, req, ctx, loc, ret, hist>>
       ELSE LET rr == register(metrics, heap, name, req[t].m) IN
            /\ metrics' = rr.metrics
            /\ heap' = rr.heap
            /\ Return(t, [m |-> req[t].m, err |-> "nil"])
            /\ hist' = [hist EXCEPT !.gorRet = @ \cup {<<name, req[t].m>>},
                                    !.direct = @ \cup {name}]
            /\ UNCHANGED <<mutex, loc>>
    /\ UNCHANGED <<tagVars, opt>>

\* The constructor returns inside GetOrRegister: register, unlock, return i
CtorReturn(t) ==
    /\ pc[t] = "ctor"
    /\ LET name == req[t].name
           i    == Len(heap) + 1
           rr   == register(metrics, Append(heap, NewInstance(req[t].kind)), name, i)
       IN  /\ metrics' = rr.metrics
           /\ heap' = rr.heap
           /\ mutex' = Unlock(mutex, t)
           /\ Return(t, [m |-> i, err |-> "nil"])
           /\ hist' = [hist EXCEPT !.gorRet = @ \cup {<<name, i>>},
                                   !.gorNew = @ \cup {<<name, i>>}]
    /\ UNCHANGED loc
    /\ UNCHANGED <<tagVars, opt>>

\* StandardRegistry.Register
Register(t) ==
    /\ pc[t] = "call" /\ req[t].op = "Register"
    /\ CanLock(mutex)
    /\ LET rr == register(metrics, heap, req[t].name, req[t].m) IN
       /\ metrics' = rr.metrics
       /\ heap' = rr.heap
       /\ Return(t, [m |-> NoMetric, err |-> rr.err])
       /\ hist' = [hist EXCEPT !.direct = IF rr.err = "nil" THEN @ \cup {req[t].name} ELSE @]
    /\ UNCHANGED <<mutex, loc>>
    /\ UNCHANGED <<tagVars, opt>>

ForgetName(h, names) ==
    [h EXCEPT !.gorRet = {p \in @ : p[1] \notin names},
              !.gorNew = {p \in @ : p[1] \notin names},
              !.direct = @ \ names]

\* StandardRegistry.Unregister
Unregister(t) ==
    /\ pc[t] = "call" /\ req[t].op = "Unregister"
    /\ CanLock(mutex)
    /\ metrics' = MapDelete(metrics, req[t].name)
    /\ Return(t, RetNone)
    /\ hist' = ForgetName(hist, {req[t].name})
    /\ UNCHANGED <<mutex, heap, loc>>
    /\ UNCHANGED <<tagVars, opt>>

\* StandardRegistry.UnregisterAll
UnregisterAll(t) ==
    /\ pc[t] = "call" /\ req[t].op = "UnregisterAll"
    /\ CanLock(mutex)
    /\ metrics' = EmptyMap
    /\ Return(t, RetNone)
    /\ hist' = ForgetName(hist, DOMAIN metrics)
    /\ UNCHANGED <<mutex, heap, loc>>
    /\ UNCHANGED <<tagVars, opt>>

\* NewRegisteredCounter(name, r): NewCounter(), r.Register(name, c), return c
\* (the error of Register is dropped)
NewRegisteredCounter(m, h, name) ==
    LET c  == Len(h) + 1
        rr == register(m, Append(h, NewInstance("Counter")), name, c)
    IN  [metrics |-> rr.metrics, heap |-> rr.heap, c |-> c]

\* StandardRegistry.Update: m := r.metrics[name] under RLock
Update(t) ==
    /\ pc[t] = "call" /\ req[t].op = "Update"
    /\ CanRLock(mutex)
    /\ loc' = [loc EXCEPT ![t].m = Lookup(metrics, req[t].name)]
    /\ pc' = [pc EXCEPT ![t] = "upd"]
    /\ UNCHANGED <<metrics, mutex, heap, req, ctx, ret, hist>>
    /\ UNCHANGED <<tagVars, opt>>

\* StandardRegistry.Update: if m == nil { m = NewRegisteredCounter(name, r) }
UpdateNew(t) ==
    /\ pc[t] = "upd" /\ loc[t].m = NoMetric
    /\ CanLock(mutex)
    /\ LET nc == NewRegisteredCounter(metrics, heap, req[t].name) IN
       /\ metrics' = nc.metrics
       /\ heap' = nc.heap
       /\ loc' = [loc EXCEPT ![t].m = nc.c]
    /\ UNCHANGED <<mutex, pc, req, ctx, ret, hist>>
    /\ UNCHANGED <<tagVars, opt>>

\* StandardRegistry.Update: m.Update(val)
UpdateApply(t) ==
    /\ pc[t] = "upd" /\ loc[t].m # NoMetric
    /\ heap' = UpdateMetric(heap, loc[t].m, req[t].val)
    /\ hist' = [hist EXCEPT !.updSum =
                  [n \in DOMAIN @ \cup {req[t].name} |->
                      IF n = req[t].name THEN SumOf(@, n) + req[t].val ELSE @[n]]]
    /\ loc' = [loc EXCEPT ![t].m = NoMetric]
    /\ Return(t, RetNone)
    /\ UNCHANGED <<metrics, mutex>>
    /\ UNCHANGED <<tagVars, opt>>

\* The names whose metric is a Healthcheck
Healthchecks(m, h) == {n \in DOMAIN m : "Healthcheck" \in Implements(h[m[n]].kind)}

\* StandardRegistry.RunHealthchecks: Lock, then h.Check() for the first Healthcheck
\* of the map (Go ranges over a map in no fixed order)
RunHealthchecks(t) ==
    /\ pc[t] = "call" /\ req[t].op = "RunHealthchecks"
    /\ CanLock(mutex)
    /\ LET hs == Healthchecks(metrics, heap) IN
       IF hs = {}
       THEN /\ Return(t, RetNone)
            /\ UNCHANGED <<mutex, loc>>
       ELSE \E n \in hs :
            /\ mutex' = Lock(mutex, t)
            /\ loc' = [loc EXCEPT ![t].todo = hs \ {n}, ![t].cur = metrics[n]]
            /\ pc' = [pc EXCEPT ![t] = "check"]
            /\ UNCHANGED <<req, ctx, ret>>
    /\ UNCHANGED <<metrics, heap, hist>>
    /\ UNCHANGED <<tagVars, opt>>

\* h.Check() returns with its outcome e recorded on the Healthcheck; the loop
\* goes on to the next one, or RunHealthchecks unlocks and returns
CheckReturn(t, e) ==
    /\ pc[t] = "check"
    /\ heap' = [heap EXCEPT ![loc[t].cur].val = e]
    /\ IF loc[t].todo = {}
       THEN /\ mutex' = Unlock(mutex, t)
            /\ loc' = [loc EXCEPT ![t].cur = NoMetric]
            /\ Return(t, RetNone)
       ELSE \E n \in loc[t].todo :
            /\ loc' = [loc EXCEPT ![t].todo = @ \ {n}, ![t].cur = metrics[n]]
            /\ UNCHANGED <<mutex, pc, req, ctx, ret>>
    /\ UNCHANGED <<metrics, hist>>
    /\ UNCHANGED <<tagVars, opt>>

\* StandardRegistry.Each up to the loop: keys of r.registered(), sorted.
\* For a PrefixedRegistry, Each runs on the root with the wrapped visitor.
Each(t) ==
    /\ pc[t] = "call" /\ req[t].op = "Each"
    /\ CanRLock(mutex)
    /\ loc' = [loc EXCEPT ![t].keys = SortStrings(DOMAIN registered(metrics)),
                          ![t].idx = 1,
                          ![t].prefix = findPrefix(req[t].via, <<>>).prefix,
                          ![t].back = ctx[t]]
    /\ pc' = [pc EXCEPT ![t] = "each"]
    /\ req' = [req EXCEPT ![t] = ReqNone]
    /\ ctx' = [ctx EXCEPT ![t] = "idle"]
    /\ hist' = [hist EXCEPT !.snap[t] = DOMAIN metrics,
                            !.snapMap[t] = registered(metrics)]
    /\ UNCHANGED <<metrics, mutex, heap, ret>>
    /\ UNCHANGED <<tagVars, opt>>

\* Mutation of EachNext: registered() returns without RUnlock, so the visitor
\* runs with the read lock held
EachNextKeepsRLock(t) ==
    /\ pc[t] = "each" /\ loc[t].idx <= Len(loc[t].keys)
    /\ CanRLock(mutex)
    /\ mutex' = RLock(mutex, t)
    /\ pc' = [pc EXCEPT ![t] = "visit"]
    /\ loc' = [loc EXCEPT ![t].arg = Lookup(registered(metrics), loc[t].keys[loc[t].idx])]
    /\ hist' = [hist EXCEPT !.visited[t] =
                  Append(@, [name |-> loc[t].keys[loc[t].idx],
                             m |-> Lookup(registered(metrics), loc[t].keys[loc[t].idx])])]
    /\ UNCHANGED <<metrics, heap, req, ctx, ret, tagVars, opt>>

\* One iteration of Each: f(name, r.registered()[name]); the wrapped visitor of
\* PrefixedRegistry.Each calls fn only for names with the prefix
EachNext(t) ==
    /\ pc[t] = "each" /\ loc[t].idx <= Len(loc[t].keys)
    /\ CanRLock(mutex)
    /\ LET name == loc[t].keys[loc[t].idx]
           m    == Lookup(registered(metrics), name)
       IN  IF HasPrefix(name, loc[t].prefix)
           THEN /\ pc' = [pc EXCEPT ![t] = "visit"]
                /\ loc' = [loc EXCEPT ![t].arg = m]
                /\ hist' = [hist EXCEPT !.visited[t] = Append(@, [name |-> name, m |-> m])]
           ELSE /\ loc' = [loc EXCEPT ![t].idx = @ + 1]
                /\ UNCHANGED <<pc, hist>>
    /\ UNCHANGED <<metrics, mutex, heap, req, ctx, ret>>
    /\ UNCHANGED <<tagVars, opt>>

\* The visitor returns to the loop of Each
VisitReturn(t) ==
    /\ pc[t] = "visit"
    /\ pc' = [pc EXCEPT ![t] = "each"]
    /\ loc' = [loc EXCEPT ![t].idx = @ + 1, ![t].arg = NoMetric]
    /\ UNCHANGED <<metrics, mutex, heap, req, ctx, ret, hist>>
    /\ UNCHANGED <<tagVars, opt>>

\* The loop of Each is over: Each returns
EachDone(t) ==
    /\ pc[t] = "each" /\ loc[t].idx > Len(loc[t].keys)
    /\ pc' = [pc EXCEPT ![t] = loc[t].back]
    /\ loc' = [loc EXCEPT ![t] = LocInit]
    /\ hist' = [hist EXCEPT !.eachEnd[t] = TRUE]
    /\ UNCHANGED <<metrics, mutex, heap, req, ctx, ret>>
    /\ UNCHANGED <<tagVars, opt>>

-----------------------------------------------------------------------------
(* tag.go driven over bounded inputs *)

\* Tag values and base names the codec is applied to
TagVals   == {<<>>, <<"a">>, <<"b">>, <<"a", "|", "b">>}
BaseNames == {<<"c">>, <<"c", "T", "A", "G">>}

TagInit ==
    /\ tb = EmptyTagBoard
    /\ tname = <<"c">>
    /\ tagged = <<>>
    /\ parsed = [name |-> <<>>, tags |-> [k \in {} |-> <<>>]]
    /\ tphase = "start"

\* A TagBoard built by NewTagBoard(tags...) for a base name
TagNew(tags, name) ==
    /\ tphase = "start"
    /\ tb' = NewTagBoard(tags)
    /\ tname' = name
    /\ tphase' = "board"
    /\ UNCHANGED <<tagged, parsed>>
    /\ UNCHANGED <<regVars, opt>>

\* A TagBoard written as a struct literal (the fields are exported)
TagLiteral(t, name) ==
    /\ tphase = "start"
    /\ tb' = t
    /\ tname' = name
    /\ tphase' = "board"
    /\ UNCHANGED <<tagged, parsed>>
    /\ UNCHANGED <<regVars, opt>>

TagEncode ==
    /\ tphase = "board"
    /\ tagged' = TaggedMetricName(tname, tb)
    /\ tphase' = "encoded"
    /\ UNCHANGED <<tb, tname, parsed>>
    /\ UNCHANGED <<regVars, opt>>

\* The exporter parses a name only when IsTagged holds
TagParse ==
    /\ tphase = "encoded"
    /\ IsTagged(tagged)
    /\ parsed' = ParseTaggedMetric(tagged)
    /\ tphase' = "parsed"
    /\ UNCHANGED <<tb, tname, tagged>>
    /\ UNCHANGED <<regVars, opt>>

TagBoards == [Ns : TagVals, Grp : TagVals, Tgt : TagVals, Act : TagVals, Sub : TagVals]

TagArgs == UNION {[1..n -> TagVals] : n \in 0..MaxTags}

NextTag ==
    \/ \E tags \in TagArgs, name \in BaseNames : TagNew(tags, name)
    \/ \E t \in TagBoards, name \in BaseNames : TagLiteral(t, name)
    \/ TagEncode
    \/ TagParse

-----------------------------------------------------------------------------
(* optron/optron.go: the batching exporter (the second Optron of the file) *)

\* Field values of an export record: a string or a number
StrVal(x) == [s |-> x, n |-> 0]
IntVal(x) == [s |-> <<>>, n |-> x]

EmptyObj == [k \in {} |-> IntVal(0)]
ObjPut(o, k, v) == [x \in DOMAIN o \cup {k} |-> IF x = k THEN v ELSE o[x]]

\* for k, v := range data { dst[k] = v }
ObjMerge(dst, data) ==
    [x \in DOMAIN dst \cup DOMAIN data |-> IF x \in DOMAIN data THEN data[x] ELSE dst[x]]

\* min(a, b)
min(a, b) == IF a <= b THEN a ELSE b

\* getOptronConfig after LoadConfig: an empty Address is an error
getOptronConfig(config) ==
    IF config.Address = <<>> THEN [config |-> config, err |-> "error"]
    ELSE [config |-> config, err |-> "nil"]

\* (variant: init without the check of the batch size)
OptronInitNoBatchCheck(config) ==
    LET got == getOptronConfig(config) IN
    IF got.err # "nil" THEN [err |-> "error", builder |-> "nil"]
    ELSE [err |-> "nil",
          builder |-> [hasBulkSupport |-> config.HasBulkSupport,
                       batchSize      |-> 0,
                       standaloneObj  |-> EmptyObj,
                       objList        |-> <<>>]]

\* Optron.init: the configuration checks, then the builder; the builder's
\* batchSize is not set by the composite literal, so it is Go's zero value
OptronInit(config) ==
    LET got == getOptronConfig(config) IN
    IF got.err # "nil" THEN [err |-> "error", builder |-> "nil"]
    ELSE IF config.HasBulkSupport /\ config.BatchSize < 1
    THEN [err |-> "error", builder |-> "nil"]
    ELSE [err |-> "nil",
          builder |-> [hasBulkSupport |-> config.HasBulkSupport,
                       batchSize      |-> 0,
                       standaloneObj  |-> EmptyObj,
                       objList        |-> <<>>]]

\* (variant: append keeps the field of the earlier record)
BuilderAppendFirstWins(ob, data) ==
    IF ob.hasBulkSupport
    THEN [ob EXCEPT !.objList = Append(@, data)]
    ELSE [ob EXCEPT !.standaloneObj = ObjMerge(data, @)]

\* OptronObjBuilder.append
BuilderAppend(ob, data) ==
    IF ob.hasBulkSupport
    THEN [ob EXCEPT !.objList = Append(@, data)]
    ELSE [ob EXCEPT !.standaloneObj = ObjMerge(@, data)]

\* (variant: the deferred function resets the list only)
BuilderClearListOnly(ob) == [ob EXCEPT !.objList = <<>>]

\* The deferred function of flush
BuilderClear(ob) == [ob EXCEPT !.standaloneObj = EmptyObj, !.objList = <<>>]

\* The head of the visitor of send: the fixed fields, then the decoded tags
\* and the base name when the name is tagged
VisitHead(name) ==
    LET fixed == [k \in {<<"hostName">>, <<"id">>, <<"game">>} |-> StrVal(k)]
    IN  IF IsTagged(name)
        THEN LET p == ParseTaggedMetric(name)
             IN  [name |-> p.name,
                  obj  |-> ObjMerge(fixed, [k \in {<<x>> : x \in DOMAIN p.tags} |->
                                              StrVal(p.tags[k[1]])])]
        ELSE [name |-> name, obj |-> fixed]

\* The case of the type switch of send a metric takes (the first that matches)
SwitchCase(kind) ==
    LET is == Implements(kind) IN
    CASE "Instant" \in is      -> "Instant"
      [] "Counter" \in is      -> "Counter"
      [] "Gauge" \in is        -> "Gauge"
      [] "GaugeFloat64" \in is -> "GaugeFloat64"
      [] "Healthcheck" \in is  -> "Healthcheck"
      [] "Histogram" \in is    -> "Histogram"
      [] "Meter" \in is        -> "Meter"
      [] "Timer" \in is        -> "Timer"
      [] OTHER                 -> "none"

\* The fields a case of the switch adds for a metric whose reading is v
CaseFields(obj, case, name, v) ==
    CASE case \in {"Instant", "Counter", "Gauge", "GaugeFloat64", "Healthcheck"} ->
            ObjPut(obj, name, IntVal(v))
      [] case = "Histogram" -> ObjPut(obj, name \o <<"_avg">>, IntVal(v))
      [] case = "Meter" ->
            ObjMerge(obj, [k \in {name \o <<x>> : x \in {"_1MR", "_5MR", "_15MR", "_avg"}}
                             |-> IntVal(v)])
      [] case = "Timer" ->
            ObjMerge(obj, [k \in {name \o <<x>> : x \in {"_avg", "_80", "_90", "_95", "_99"}}
                             |-> IntVal(v)])
      [] OTHER -> obj

OptInitial(config) ==
    [st |-> "new", config |-> config,
     builder |-> [hasBulkSupport |-> FALSE, batchSize |-> 0,
                  standaloneObj |-> EmptyObj, objList |-> <<>>],
     working |-> FALSE, conn |-> "nil",
     obj |-> EmptyObj,            \* optronObj of the running visitor
     i |-> 0, data |-> <<>>,      \* locals of flush
     content |-> <<>>, pos |-> 0, \* locals of the write loop of send
     cycle |-> 0,                 \* ticks so far
     built |-> <<>>,              \* log: the records the visitor built this cycle, in order
     wire |-> <<>>,               \* log: the payloads written this cycle, in order
     dials |-> 0]                 \* log: the calls of net.Dial this cycle

\* New / NewForGame: construct, then init
OptNew ==
    /\ opt.st = "new"
    /\ LET r == OptronInit(opt.config) IN
       opt' = IF r.err = "nil" THEN [opt EXCEPT !.st = "ready", !.builder = r.builder]
              ELSE [opt EXCEPT !.st = "failed"]
    /\ UNCHANGED <<regVars, tagVars>>

\* (variant: send goes on to Each although the dial failed)
OptSendGoesOn(dialOk) ==
    /\ opt.st = "ready" /\ pc["optron"] = "idle"
    /\ opt.cycle < MaxCycles
    /\ opt' = [opt EXCEPT !.working = opt.working \/ dialOk,
                          !.conn = IF ~opt.working /\ dialOk THEN "open" ELSE @,
                          !.cycle = @ + 1, !.built = <<>>, !.wire = <<>>,
                          !.dials = IF opt.working THEN 0 ELSE 1]
    /\ pc' = [pc EXCEPT !["optron"] = "call"]
    /\ req' = [req EXCEPT !["optron"] = [ReqNone EXCEPT !.op = "Each"]]
    /\ ctx' = [ctx EXCEPT !["optron"] = "send"]
    /\ UNCHANGED <<metrics, mutex, heap, loc, ret, hist, tagVars>>

\* A tick of Start: send() up to the call of DefaultRegistry.Each; connect()
\* dials when not working (dialOk: whether net.Dial succeeds)
OptSend(dialOk) ==
    /\ opt.st = "ready" /\ pc["optron"] = "idle"
    /\ opt.cycle < MaxCycles
    /\ LET working == opt.working \/ dialOk
           conn    == IF ~opt.working /\ dialOk THEN "open" ELSE opt.conn
       IN  /\ opt' = [opt EXCEPT !.working = working, !.conn = conn, !.cycle = @ + 1,
                                 !.built = <<>>, !.wire = <<>>,
                                 !.dials = IF opt.working THEN 0 ELSE 1]
           /\ IF working
              THEN /\ pc' = [pc EXCEPT !["optron"] = "call"]
                   /\ req' = [req EXCEPT !["optron"] = [ReqNone EXCEPT !.op = "Each"]]
                   /\ ctx' = [ctx EXCEPT !["optron"] = "send"]
              ELSE UNCHANGED <<pc, req, ctx>>
    /\ UNCHANGED <<metrics, mutex, heap, loc, ret, hist, tagVars>>

\* The visitor of send for one metric: optronObj, the case of the type switch,
\* builder.append. An Instant is read here and cleared in a second call;
\* a Healthcheck is checked first (e: the outcome of its check).
OptVisit(e) ==
    /\ pc["optron"] = "visit"
    /\ LET m    == loc["optron"].arg
           head == VisitHead(loc["optron"].keys[loc["optron"].idx])
           case == IF m = NoMetric THEN "none" ELSE SwitchCase(heap[m].kind)
           v    == IF m = NoMetric THEN 0
                   ELSE IF case = "Healthcheck" THEN e ELSE heap[m].val
           obj  == CaseFields(head.obj, case, head.name, v)
       IN  /\ heap' = IF case = "Healthcheck" THEN [heap EXCEPT ![m].val = e] ELSE heap
           /\ IF case = "Instant"
              THEN /\ opt' = [opt EXCEPT !.obj = obj]
                   /\ pc' = [pc EXCEPT !["optron"] = "clear"]
                   /\ UNCHANGED loc
              ELSE /\ opt' = [opt EXCEPT !.builder = BuilderAppend(@, obj),
                                         !.built = Append(@, obj)]
                   /\ pc' = [pc EXCEPT !["optron"] = "each"]
                   /\ loc' = [loc EXCEPT !["optron"].idx = @ + 1,
                                         !["optron"].arg = NoMetric]
    /\ UNCHANGED <<metrics, mutex, req, ctx, ret, hist, tagVars>>

\* case metrics.Instant: metric.Clear() after metric.Count(), then builder.append
OptClear ==
    /\ pc["optron"] = "clear"
    /\ heap' = InstantClear(heap, loc["optron"].arg)
    /\ opt' = [opt EXCEPT !.builder = BuilderAppend(@, opt.obj),
                          !.built = Append(@, opt.obj),
                          !.obj = EmptyObj]
    /\ pc' = [pc EXCEPT !["optron"] = "each"]
    /\ loc' = [loc EXCEPT !["optron"].idx = @ + 1, !["optron"].arg = NoMetric]
    /\ UNCHANGED <<metrics, mutex, req, ctx, ret, hist, tagVars>>

\* OptronObjBuilder.flush, entered when Each has returned: without bulk support
\* it returns the combined object (and the deferred function clears the builder)
OptFlush ==
    /\ pc["optron"] = "send"
    /\ IF opt.builder.hasBulkSupport
       THEN /\ opt' = [opt EXCEPT !.i = 0, !.data = <<>>]
            /\ pc' = [pc EXCEPT !["optron"] = "flush"]
       ELSE /\ opt' = [opt EXCEPT !.content = <<opt.builder.standaloneObj>>,
                                  !.pos = 1,
                                  !.builder = BuilderClear(@)]
            /\ pc' = [pc EXCEPT !["optron"] = "write"]
    /\ UNCHANGED <<metrics, mutex, heap, req, ctx, loc, ret, hist, tagVars>>

\* One iteration of the loop of flush:
\* data = append(data, objList[i:min(i+batchSize, len(objList))]); i += batchSize
OptFlushStep ==
    /\ pc["optron"] = "flush"
    /\ opt.i < Len(opt.builder.objList)
    /\ Len(opt.data) < MaxFlush
    /\ opt' = [opt EXCEPT
                 !.data = Append(@, SubSeq(opt.builder.objList, opt.i + 1,
                                           min(opt.i + opt.builder.batchSize,
                                               Len(opt.builder.objList)))),
                 !.i = @ + opt.builder.batchSize]
    /\ UNCHANGED <<regVars, tagVars>>

\* The loop of flush is over: return data, the deferred function clears the builder
OptFlushEnd ==
    /\ pc["optron"] = "flush"
    /\ opt.i >= Len(opt.builder.objList)
    /\ opt' = [opt EXCEPT !.content = opt.data, !.pos = 1, !.data = <<>>, !.i = 0,
                          !.builder = BuilderClear(@)]
    /\ pc' = [pc EXCEPT !["optron"] = "write"]
    /\ UNCHANGED <<metrics, mutex, heap, req, ctx, loc, ret, hist, tagVars>>

\* (variant: a failed write is tried again after the reconnect)
OptWriteRetries(marshalOk, writeOk, dialOk) ==
    /\ pc["optron"] = "write"
    /\ opt.pos <= Len(opt.content)
    /\ IF ~marshalOk
       THEN /\ opt' = [opt EXCEPT !.content = <<>>, !.pos = 0]
            /\ pc' = [pc EXCEPT !["optron"] = "idle"]
       ELSE /\ opt' = [opt EXCEPT
                         !.wire = Append(@, [data |-> opt.content[opt.pos], ok |-> writeOk]),
                         !.pos = IF writeOk THEN @ + 1 ELSE @,
                         !.working = IF writeOk THEN @ ELSE dialOk,
                         !.conn = IF ~writeOk /\ dialOk THEN "open" ELSE @,
                         !.dials = IF writeOk THEN @ ELSE @ + 1]
            /\ UNCHANGED pc
    /\ UNCHANGED <<metrics, mutex, heap, req, ctx, loc, ret, hist, tagVars>>

\* One iteration of the write loop of send: json.Marshal (an error ends send),
\* conn.Write, and connect() when the write fails
OptWrite(marshalOk, writeOk, dialOk) ==
    /\ pc["optron"] = "write"
    /\ opt.pos <= Len(opt.content)
    /\ IF ~marshalOk
       THEN /\ opt' = [opt EXCEPT !.content = <<>>, !.pos = 0]
            /\ pc' = [pc EXCEPT !["optron"] = "idle"]
       ELSE /\ opt' = [opt EXCEPT
                         !.wire = Append(@, [data |-> opt.content[opt.pos], ok |-> writeOk]),
                         !.pos = @ + 1,
                         !.working = IF writeOk THEN @ ELSE dialOk,
                         !.conn = IF ~writeOk /\ dialOk THEN "open" ELSE @,
                         !.dials = IF writeOk THEN @ ELSE @ + 1]
            /\ UNCHANGED pc
    /\ UNCHANGED <<metrics, mutex, heap, req, ctx, loc, ret, hist, tagVars>>

\* The write loop is over: send returns to the tick loop of Start
OptCycleEnd ==
    /\ pc["optron"] = "write"
    /\ opt.pos > Len(opt.content)
    /\ opt' = [opt EXCEPT !.content = <<>>, !.pos = 0]
    /\ pc' = [pc EXCEPT !["optron"] = "idle"]
    /\ UNCHANGED <<metrics, mutex, heap, req, ctx, loc, ret, hist, tagVars>>

-----------------------------------------------------------------------------
(* Specifications *)

DefaultConfig == [Address |-> <<"h">>, HasBulkSupport |-> FALSE, BatchSize |-> 0]

\* ---- registration on the StandardRegistry by concurrent goroutines
RegNames == {<<"a">>, <<"b">>}

RegCalls ==
    {<<"Get", n, "none", FALSE, 0>> : n \in RegNames}
    \cup {<<"Unregister", <<"a">>, "none", FALSE, 0>>,
          <<"UnregisterAll", <<>>, "none", FALSE, 0>>,
          <<"RunHealthchecks", <<>>, "none", FALSE, 0>>}
    \cup {<<"Register", n, k, FALSE, 0>> :
             n \in RegNames, k \in {"Counter", "Healthcheck", "Other"}}
    \cup {<<"GetOrRegister", n, k, TRUE, 0>> :
             n \in RegNames, k \in {"Counter", "GaugeFloat64"}}
    \cup {<<"GetOrRegister", n, "Counter", FALSE, 0>> : n \in RegNames}

InitReg == RegInit /\ TagInit /\ opt = OptInitial(DefaultConfig)

NextReg ==
    \E t \in App :
        \/ \E a \in RegCalls : Call(t, "root", a[1], a[2], a[3], a[4], a[5])
        \/ Get(t)
        \/ GetOrRegister(t)
        \/ CtorReturn(t)
        \/ Register(t)
        \/ Unregister(t)
        \/ UnregisterAll(t)
        \/ RunHealthchecks(t)
        \/ \E e \in {0, 1} : CheckReturn(t, e)

SpecReg == InitReg /\ [][NextReg]_vars

\* The instances GetOrRegister returned for name n, and those its constructor built
GorReturned(n) == {p[2] : p \in {q \in hist.gorRet : q[1] = n}}
GorBuilt(n)    == {p[2] : p \in {q \in hist.gorNew : q[1] = n}}

\* C1: when GetOrRegister(name, ctor) calls, concurrent or not, find name
\* unregistered and ctor builds a metric of the closed kinds, ctor is invoked
\* exactly once and every call returns the same instance.
C1_GetOrRegisterOnce ==
    \A n \in {p[1] : p \in hist.gorRet} :
        (n \notin hist.direct /\ \A i \in GorBuilt(n) : heap[i].kind \in MetricKinds)
            => (Cardinality(GorBuilt(n)) = 1 /\ Cardinality(GorReturned(n)) = 1)

\* C2: a Register step on a name the registry already holds returns
\* DuplicateMetric and leaves the whole map as it was.
C2_DuplicateRegister ==
    [][\A t \in App :
         (Register(t) /\ req[t].name \in DOMAIN metrics)
            => (ret'[t].err = "DuplicateMetric" /\ metrics' = metrics)]_vars

\* A duplicate Register has returned while the map holds another name as well
C2_Witness ==
    \E t \in App :
        /\ pc[t] = "idle" /\ ret[t].err = "DuplicateMetric"
        /\ Cardinality(DOMAIN metrics) = 2

\* C5: a goroutine running user-supplied code (the factory of GetOrRegister, the
\* check of a Healthcheck, the visitor of Each) does not hold the registry lock.
C5_NoUserCodeUnderLock ==
    \A t \in Procs :
        pc[t] \in {"ctor", "check", "visit"} => (mutex.w # t /\ t \notin mutex.r)

\* A registry into which the metrics of items were registered, in order
Preloaded(items) ==
    [metrics |-> [n \in {items[i].name : i \in 1..Len(items)} |->
                    CHOOSE i \in 1..Len(items) : items[i].name = n],
     heap    |-> [i \in 1..Len(items) |-> NewInstance(items[i].kind)]]

RegInitWith(items) ==
    /\ metrics = Preloaded(items).metrics
    /\ heap = Preloaded(items).heap
    /\ mutex = [w |-> "none", r |-> {}]
    /\ pc = [t \in Procs |-> "idle"]
    /\ req = [t \in Procs |-> ReqNone]
    /\ ctx = [t \in Procs |-> "idle"]
    /\ loc = [t \in Procs |-> LocInit]
    /\ ret = [t \in Procs |-> RetNone]
    /\ hist = HistInit

\* ---- Update on the StandardRegistry by concurrent goroutines
UpdCalls ==
    {<<"Update", n, "none", FALSE, v>> : n \in RegNames, v \in {1, 2}}
    \cup {<<"Get", <<"a">>, "none", FALSE, 0>>}

NextUpd ==
    \E t \in App :
        \/ \E a \in UpdCalls : Call(t, "root", a[1], a[2], a[3], a[4], a[5])
        \/ Get(t)
        \/ Update(t)
        \/ UpdateNew(t)
        \/ UpdateApply(t)

SpecUpd == InitReg /\ [][NextUpd]_vars

\* Some Update(n, _) call has not returned yet
UpdateRunning(n) == \E t \in Procs : req[t].op = "Update" /\ req[t].name = n

\* C3: with only Update calls made on a name that was absent, once they have
\* all returned the name holds a Counter whose count is the sum of the values.
C3_UpdateSum ==
    \A n \in DOMAIN hist.updSum :
        ~UpdateRunning(n)
            => /\ n \in DOMAIN metrics
               /\ heap[metrics[n]].kind = "Counter"
               /\ heap[metrics[n]].val = hist.updSum[n]

\* ---- Each on a StandardRegistry holding "a" and "b", with a visitor that calls
\* back into the registry and goroutines that register and unregister meanwhile
\* (the factories given to GetOrRegister here do not call the registry)
EachCalls ==
    {<<"Each", <<>>, "none", FALSE, 0>>,
     <<"Get", <<"a">>, "none", FALSE, 0>>,
     <<"Register", <<"a", "b">>, "Counter", FALSE, 0>>,
     <<"GetOrRegister", <<"a", "b">>, "Counter", TRUE, 0>>,
     <<"Unregister", <<"a">>, "none", FALSE, 0>>,
     <<"Unregister", <<"b">>, "none", FALSE, 0>>,
     <<"UnregisterAll", <<>>, "none", FALSE, 0>>,
     <<"Update", <<"b">>, "none", FALSE, 1>>}

InitEach ==
    /\ RegInitWith(<<[name |-> <<"b">>, kind |-> "Counter"],
                     [name |-> <<"a">>, kind |-> "Gauge"]>>)
    /\ TagInit
    /\ opt = OptInitial(DefaultConfig)

EachStep(t) ==
    \/ Get(t)
    \/ GetOrRegister(t)
    \/ CtorReturn(t)
    \/ Register(t)
    \/ Unregister(t)
    \/ UnregisterAll(t)
    \/ Update(t)
    \/ UpdateNew(t)
    \/ UpdateApply(t)
    \/ Each(t)
    \/ EachNext(t)
    \/ VisitReturn(t)
    \/ EachDone(t)

NextEach ==
    \E t \in App :
        \/ \E a \in EachCalls :
              /\ pc[t] \in {"idle", "visit"}
              /\ Call(t, "root", a[1], a[2], a[3], a[4], a[5])
        \/ EachStep(t)

SpecEach == InitEach /\ [][NextEach]_vars

\* Every goroutine that can take a step of the operation it is in eventually
\* takes one (the Go scheduler runs every runnable goroutine, and a goroutine
\* blocked on the RWMutex gets it once it is free often enough)
SpecEachFair == SpecEach /\ \A t \in App : SF_vars(EachStep(t))

\* The names t's visitor has been given so far, in order
VisitedNames(t) == [i \in 1..Len(hist.visited[t]) |-> hist.visited[t][i].name]
SeqRange(q) == {q[i] : i \in 1..Len(q)}

\* C4: the visitor of Each is given names in strictly ascending order, only
\* names registered when Each took its copy, and by the time Each returns every
\* one of them, whatever is registered or unregistered meanwhile.
C4_EachSnapshotOrder ==
    \A t \in App :
        /\ \A i, j \in 1..Len(hist.visited[t]) :
              i < j => StrLess(VisitedNames(t)[i], VisitedNames(t)[j])
        /\ SeqRange(VisitedNames(t)) \subseteq hist.snap[t]
        /\ hist.eachEnd[t] => SeqRange(VisitedNames(t)) = hist.snap[t]

\* An Each whose visitor made no call has returned after visiting two names,
\* and another goroutine changed the registered names meanwhile
C4_Witness ==
    \E t \in App :
        /\ hist.eachEnd[t] /\ Len(hist.visited[t]) = 2
        /\ hist.nested[t] = {}
        /\ DOMAIN metrics # hist.snap[t]

\* C6: an Each whose visitor calls back into the registry still returns, having
\* visited the names captured when it started.
C6_EachReentrantReturns ==
    \A t \in App :
        (loc[t].idx > 0) ~> (hist.eachEnd[t] /\ SeqRange(VisitedNames(t)) = hist.snap[t])

\* An Each has returned whose visitor called a locking operation of the registry
C6_Witness ==
    \E t \in App :
        /\ hist.eachEnd[t] /\ Len(hist.visited[t]) = 2
        /\ hist.nested[t] \cap {"Register", "GetOrRegister", "Unregister",
                                "UnregisterAll", "Update"} # {}

\* ---- one goroutine calling through the prefixed view and through the root
PfxCalls ==
    {<<"api", op, <<"a">>, "none", FALSE, 0>> : op \in {"Get", "Unregister"}}
    \cup {<<"api", "Register", <<"a">>, k, FALSE, 0>> : k \in {"Counter", "Healthcheck"}}
    \cup {<<"api", "GetOrRegister", <<"a">>, "Counter", TRUE, 0>>,
          <<"api", "Update", <<"a">>, "none", FALSE, 1>>,
          <<"root", "Register", <<"a">>, "Gauge", FALSE, 0>>,
          <<"root", "Get", <<"p", ".", "a">>, "none", FALSE, 0>>,
          <<"root", "Each", <<>>, "none", FALSE, 0>>}

NextPfx ==
    \/ \E a \in PfxCalls :
          /\ pc["g1"] \in {"idle", "visit"}
          /\ Call("g1", a[1], a[2], a[3], a[4], a[5], a[6])
    \/ Get("g1")
    \/ GetOrRegister("g1")
    \/ CtorReturn("g1")
    \/ Register("g1")
    \/ Unregister("g1")
    \/ Update("g1")
    \/ UpdateNew("g1")
    \/ UpdateApply("g1")
    \/ Each("g1")
    \/ EachNext("g1")
    \/ VisitReturn("g1")
    \/ EachDone("g1")

SpecPfx == InitReg /\ [][NextPfx]_vars

\* The names the root's Each enumerates in a registry map
Enumerated(m) == SeqRange(SortStrings(DOMAIN registered(m)))

\* C8: a Register, Get, GetOrRegister or Unregister made through the view with
\* prefix p has the effect and the result of that operation on the underlying
\* registry with the name p+name, and a metric registered through the view is
\* enumerated by the root under p+name.
C8_PrefixedDelegates ==
    [][\A t \in App :
         LET n == Registries["api"].prefix \o req[t].vname
             rr == register(metrics, heap, n, req[t].m)
         IN  /\ (req[t].via = "api" /\ pc[t] = "call" /\ pc'[t] # "call") =>
                  CASE req[t].op = "Get" ->
                         ret'[t].m = Lookup(metrics, n) /\ metrics' = metrics
                    [] req[t].op = "Unregister" ->
                         metrics' = MapDelete(metrics, n)
                    [] req[t].op = "Register" ->
                         /\ metrics' = rr.metrics
                         /\ ret'[t].err = rr.err
                         /\ rr.err = "nil" => n \in Enumerated(metrics')
                    [] req[t].op = "GetOrRegister" ->
                         IF n \in DOMAIN metrics
                         THEN ret'[t].m = metrics[n] /\ metrics' = metrics
                         ELSE pc'[t] = "ctor" /\ metrics' = metrics
                    [] OTHER -> TRUE
             /\ (req[t].via = "api" /\ pc[t] = "ctor" /\ pc'[t] \notin {"ctor", "call"}) =>
                  /\ n \in Enumerated(metrics')
                  /\ ret'[t].m = metrics'[n]
                  /\ \A x \in DOMAIN metrics : x \in DOMAIN metrics' /\ metrics'[x] = metrics[x]
      ]_vars

\* The root's Each has visited, under "p.a", a metric registered as "a" through the view
C8_Witness ==
    \E t \in App :
        /\ hist.eachEnd[t]
        /\ <<"p", ".", "a">> \in SeqRange(VisitedNames(t))
        /\ <<"a">> \notin DOMAIN metrics

\* C9: an Update made through the view with prefix p never creates or modifies
\* the entry stored under the unprefixed name (it works on p+name).
C9_PrefixedUpdate ==
    [][\A t \in App :
         (req[t].op = "Update" /\ req[t].via = "api") =>
            LET un == req[t].vname IN
            /\ Lookup(metrics', un) = Lookup(metrics, un)
            /\ un \in DOMAIN metrics => heap'[metrics[un]] = heap[metrics[un]]
      ]_vars


\* ---- the tag codec
InitTag == RegInit /\ TagInit /\ opt = OptInitial(DefaultConfig)

SpecTag == InitTag /\ [][NextTag]_vars

\* The fields of a TagBoard in their order
TagFields(t) == <<t.Ns, t.Grp, t.Tgt, t.Act, t.Sub>>

\* C7: for a TagBoard whose fields hold neither "|" nor "TAG" and a base name
\* without "TAG", ParseTaggedMetric(TaggedMetricName(name, T)) gives back name
\* and a mapping that assigns every non-empty field of T to its own key.
C7_TagRoundTrip ==
    (/\ tphase = "parsed"
     /\ ~StrContains(tname, TAG_METRIC_DELIMITER)
     /\ \A i \in 1..Len(TagKeys) :
           /\ ~StrContains(TagFields(tb)[i], TAG_DELIMITER)
           /\ ~StrContains(TagFields(tb)[i], TAG_METRIC_DELIMITER))
    => /\ parsed.name = tname
       /\ \A i \in 1..Len(TagKeys) :
             TagFields(tb)[i] # <<>> =>
                /\ TagKeys[i] \in DOMAIN parsed.tags
                /\ parsed.tags[TagKeys[i]] = TagFields(tb)[i]

\* ---- the exporter over a registry holding the first metrics of a catalog,
\* with an application goroutine that updates and unregisters meanwhile
OptCatalog ==
    <<[name |-> <<"a">>, kind |-> "Counter"],
      [name |-> <<"b">>, kind |-> "Instant"],
      [name |-> <<"a", "|", "b", "T", "A", "G", "c">>, kind |-> "Gauge"],
      [name |-> <<"c">>, kind |-> "Healthcheck"]>>

OptConfigs ==
    [Address : {<<>>, <<"h">>}, HasBulkSupport : BOOLEAN, BatchSize : 0..MaxBatch]

OptCalls ==
    {<<"Update", <<"a">>, "none", FALSE, 1>>,
     <<"Update", <<"b">>, "none", FALSE, 1>>,
     <<"Unregister", <<"a">>, "none", FALSE, 0>>}

InitOpt ==
    /\ \E n \in 0..Len(OptCatalog) : RegInitWith(SubSeq(OptCatalog, 1, n))
    /\ TagInit
    /\ \E config \in OptConfigs : opt = OptInitial(config)

NextOpt ==
    \/ OptNew
    \/ \E dialOk \in BOOLEAN : OptSend(dialOk)
    \/ Each("optron")
    \/ EachNext("optron")
    \/ EachDone("optron")
    \/ \E e \in {0, 1} : OptVisit(e)
    \/ OptClear
    \/ OptFlush
    \/ OptFlushStep
    \/ OptFlushEnd
    \/ \E marshalOk, writeOk, dialOk \in BOOLEAN : OptWrite(marshalOk, writeOk, dialOk)
    \/ OptCycleEnd
    \/ \E a \in OptCalls :
          /\ pc["g1"] = "idle"
          /\ Call("g1", "root", a[1], a[2], a[3], a[4], a[5])
    \/ Update("g1")
    \/ UpdateNew("g1")
    \/ UpdateApply("g1")
    \/ Unregister("g1")

SpecOpt == InitOpt /\ [][NextOpt]_vars

\* The payloads of this cycle flush has built so far, or has returned
OptPayloads == IF pc["optron"] = "flush" THEN opt.data ELSE opt.content

\* C10: with bulk support and configured batch size b >= 1, the payloads of a
\* cycle over n records are the records in Each order cut into ceil(n/b)
\* batches: each but the last holds b records, the last the remainder.
C10_BulkBatches ==
    (/\ opt.st = "ready" /\ opt.config.HasBulkSupport /\ opt.config.BatchSize >= 1
     /\ pc["optron"] \in {"flush", "write"})
    => LET b == opt.config.BatchSize
           n == Len(opt.built)
       IN  /\ Len(OptPayloads) <= (n + b - 1) \div b
           /\ pc["optron"] = "write" => Len(OptPayloads) = (n + b - 1) \div b
           /\ \A k \in 1..Len(OptPayloads) :
                 OptPayloads[k] = SubSeq(opt.built, (k - 1) * b + 1, min(k * b, n))

\* ---- the exporter with the application updating between export cycles only
\* (no update runs while a cycle runs, and no cycle starts inside an update)
ExpCalls ==
    {<<"Update", <<"a">>, "none", FALSE, 1>>,
     <<"Update", <<"b">>, "none", FALSE, 1>>}

NextExp ==
    \/ OptNew
    \/ \E dialOk \in BOOLEAN : pc["g1"] = "idle" /\ OptSend(dialOk)
    \/ Each("optron")
    \/ EachNext("optron")
    \/ EachDone("optron")
    \/ \E e \in {0, 1} : OptVisit(e)
    \/ OptClear
    \/ OptFlush
    \/ OptFlushStep
    \/ OptFlushEnd
    \/ \E marshalOk, writeOk, dialOk \in BOOLEAN : OptWrite(marshalOk, writeOk, dialOk)
    \/ OptCycleEnd
    \/ \E a \in ExpCalls :
          /\ pc["g1"] = "idle" /\ pc["optron"] = "idle"
          /\ Call("g1", "root", a[1], a[2], a[3], a[4], a[5])
    \/ Update("g1")
    \/ UpdateNew("g1")
    \/ UpdateApply("g1")

SpecExp == InitOpt /\ [][NextExp]_vars

\* The field-by-field merge of records in order, the last record that has a
\* field giving its value
MergedLastWins(recs) ==
    [k \in UNION {DOMAIN recs[i] : i \in 1..Len(recs)} |->
        LET last == CHOOSE i \in 1..Len(recs) :
                       /\ k \in DOMAIN recs[i]
                       /\ \A j \in (i + 1)..Len(recs) : k \notin DOMAIN recs[j]
        IN  recs[last][k]]

\* C11: without bulk support, flush hands over exactly one payload, the merge
\* of the cycle's records in Each order where the record built last wins a
\* shared field; nothing else is written, and a cycle whose serialization
\* succeeds has written it once when the write loop ends.
C11_StandaloneMerge ==
    (opt.st = "ready" /\ ~opt.config.HasBulkSupport)
    => /\ pc["optron"] = "write" => opt.content = <<MergedLastWins(opt.built)>>
       /\ Len(opt.wire) <= 1
       /\ \A k \in 1..Len(opt.wire) : opt.wire[k].data = MergedLastWins(opt.built)
       /\ (pc["optron"] = "write" /\ opt.pos > Len(opt.content)) => Len(opt.wire) = 1

\* One payload was written whose field shared by two records has the later value
C11_Witness ==
    /\ ~opt.config.HasBulkSupport /\ Len(opt.wire) = 1
    /\ \E i, j \in 1..Len(opt.built) : \E k \in DOMAIN opt.built[i] \cap DOMAIN opt.built[j] :
          /\ i < j /\ opt.built[i][k] # opt.built[j][k]
          /\ opt.wire[1].data[k] = opt.built[j][k]

\* The accumulation buffer of the builder holds nothing
BufferEmpty == opt.builder.objList = <<>> /\ opt.builder.standaloneObj = EmptyObj

\* C12: once flush has returned and at the end of every cycle the buffer is
\* empty, whatever the outcome of the dial, the serialization and the write;
\* while a cycle collects, the buffer holds the records of this cycle only, and
\* every field written comes from a record of this cycle.
C12_BufferCleared ==
    opt.st = "ready"
    => /\ pc["optron"] \in {"idle", "write"} => BufferEmpty
       /\ pc["optron"] \in {"call", "each", "visit", "clear", "send"} =>
             IF opt.builder.hasBulkSupport
             THEN opt.builder.objList = opt.built /\ opt.builder.standaloneObj = EmptyObj
             ELSE /\ opt.builder.standaloneObj = MergedLastWins(opt.built)
                  /\ opt.builder.objList = <<>>
       /\ \A k \in 1..Len(opt.wire) :
             IF opt.builder.hasBulkSupport
             THEN \A x \in 1..Len(opt.wire[k].data) :
                     \E i \in 1..Len(opt.built) : opt.wire[k].data[x] = opt.built[i]
             ELSE \A f \in DOMAIN opt.wire[k].data :
                     \E i \in 1..Len(opt.built) :
                        f \in DOMAIN opt.built[i] /\ opt.built[i][f] = opt.wire[k].data[f]

\* A second cycle has ended after a failed write, with an empty buffer
C12_Witness ==
    /\ opt.cycle = 2 /\ pc["optron"] = "idle" /\ BufferEmpty
    /\ Len(opt.built) >= 1 /\ Len(opt.wire) = 1 /\ ~opt.wire[1].ok

\* C13: a step of the write loop that writes a payload writes the payload at
\* the loop's position, which no earlier step has written, and moves on to the
\* next position; it dials exactly once when the write failed and not at all
\* when it succeeded. When send returns the payloads are dropped.
C13_WriteFailureOneDial ==
    [][(pc["optron"] = "write" /\ Len(opt'.wire) = Len(opt.wire) + 1)
       => LET w == opt'.wire[Len(opt'.wire)] IN
          /\ Len(opt.wire) = opt.pos - 1
          /\ w.data = opt.content[opt.pos]
          /\ opt'.pos = opt.pos + 1
          /\ opt'.dials = opt.dials + (IF w.ok THEN 0 ELSE 1)
          /\ pc'["optron"] = "idle" => opt'.content = <<>>]_vars

\* A cycle that started connected has ended after one failed write and its dial
C13_Witness ==
    /\ pc["optron"] = "idle" /\ opt.cycle = 2
    /\ Len(opt.wire) = 1 /\ ~opt.wire[1].ok /\ opt.dials = 1

\* C14: the step that starts a cycle dials once when the exporter is not
\* connected and not at all when it is; when that dial fails the cycle is over
\* with no record built and nothing written, and the exporter is disconnected;
\* otherwise the cycle goes on to Each.
C14_DialPerCycle ==
    [][(pc["optron"] = "idle" /\ opt'.cycle = opt.cycle + 1)
       => /\ opt'.dials = (IF opt.working THEN 0 ELSE 1)
          /\ (~opt.working /\ ~opt'.working)
                => /\ pc'["optron"] = "idle"
                   /\ opt'.wire = <<>> /\ opt'.built = <<>>
          /\ opt'.working => pc'["optron"] = "call"]_vars

\* Two cycles in a row whose dial failed
C14_Witness ==
    /\ opt.cycle = 2 /\ pc["optron"] = "idle" /\ ~opt.working
    /\ opt.dials = 1 /\ opt.wire = <<>> /\ opt.conn = "nil"

\* C15: with no update running, the visitor exports the count of an
\* InstantCounter as it is and the counter is zero once the visitor is done
\* with it.
C15_InstantReadAndClear ==
    [][LET m    == loc["optron"].arg
           name == VisitHead(loc["optron"].keys[loc["optron"].idx]).name
       IN  (m # NoMetric /\ heap[m].kind = "Instant")
           => /\ (pc["optron"] = "visit" /\ pc'["optron"] = "clear")
                    => opt'.obj[name] = IntVal(heap[m].val)
              /\ (pc["optron"] = "clear" /\ pc'["optron"] = "each")
                    => /\ heap'[m].val = 0
                       /\ opt'.built[Len(opt'.built)][name] = IntVal(heap[m].val)]_vars

\* The second cycle has exported zero for an InstantCounter that was updated
\* before the first
C15_Witness ==
    /\ opt.cycle = 2 /\ pc["optron"] = "idle" /\ pc["g1"] = "idle"
    /\ <<"b">> \in DOMAIN metrics /\ heap[metrics[<<"b">>]].kind = "Instant"
    /\ heap[metrics[<<"b">>]].val = 0
    /\ <<"b">> \in DOMAIN hist.updSum /\ hist.updSum[<<"b">>] >= 1
    /\ \E i \in 1..Len(opt.built) :
          <<"b">> \in DOMAIN opt.built[i] /\ opt.built[i][<<"b">>] = IntVal(0)

\* C16: a step of the visitor of send leaves the value of every registered
\* metric that is neither an InstantCounter nor a Healthcheck (which send
\* checks afresh) as it was: a plain Counter keeps its count.
C16_ExportReadOnly ==
    [][(pc["optron"] \in {"visit", "clear"} /\ pc'["optron"] # pc["optron"])
       => \A n \in DOMAIN metrics :
             heap[metrics[n]].kind \notin {"Instant", "Healthcheck"}
                => heap'[metrics[n]].val = heap[metrics[n]].val]_vars

\* C17: a Register step whose name is unused and whose value is none of the
\* metric kinds returns no error and leaves the map as it was (so Get finds
\* nothing under the name and Each does not visit it).
C17_RegisterNonMetric ==
    [][\A t \in App :
          (Register(t) /\ req[t].name \notin DOMAIN metrics /\ heap[req[t].m].kind = "Other")
             => (ret'[t].err = "nil" /\ metrics' = metrics /\ heap' = heap)]_vars

\* The only call so far, a Register of a value that is no metric, has returned nil
C17_Witness ==
    \E t \in App :
        /\ pc[t] = "idle" /\ ret[t].err = "nil" /\ hist.nCalls = 1
        /\ DOMAIN metrics = {}
        /\ Len(heap) = 1 /\ heap[1].kind = "Other"

\* C18: construction fails exactly when the address is empty or bulk support
\* comes with a batch size below 1.
C18_ConfigValidation ==
    opt.st # "new"
    => (opt.st = "failed"
           <=> \/ opt.config.Address = <<>>
               \/ (opt.config.HasBulkSupport /\ opt.config.BatchSize < 1))

\* Construction has failed for the batch size alone
C18_Witness ==
    /\ opt.st = "failed" /\ opt.config.Address # <<>>
    /\ opt.config.HasBulkSupport /\ opt.config.BatchSize = 0

\* C19: with bulk support every iteration of the loop of flush moves past at
\* least one record, so the loop is over after at most as many iterations as
\* there are records and send goes on to the write loop.
C19_FlushTerminates ==
    (opt.st = "ready" /\ opt.config.HasBulkSupport /\ pc["optron"] = "flush")
    => /\ Len(opt.data) <= opt.i
       /\ Len(opt.data) <= Len(opt.builder.objList)

\* C20: the connection handle is absent whenever the exporter is not working,
\* and a payload is pending in the write loop only while it is working.
C20_WriteOnlyConnected ==
    opt.st = "ready"
    => /\ ~opt.working => opt.conn = "nil"
       /\ (pc["optron"] = "write" /\ opt.pos <= Len(opt.content)) => opt.working

\* C21: when GetOrRegister(name, x) returns an instance of one of the metric
\* kinds, that instance is the one the registry holds under name (so a later
\* Get or GetOrRegister of the name, with no Unregister in between, finds it).
C21_ReturnedIsRegistered ==
    [][\A t \in App :
          (/\ req[t].op = "GetOrRegister" /\ pc[t] \in {"call", "ctor"}
           /\ req'[t] = ReqNone
           /\ heap'[ret'[t].m].kind \in MetricKinds)
          => /\ req[t].name \in DOMAIN metrics'
             /\ metrics'[req[t].name] = ret'[t].m]_vars

\* C22: every call of the visitor of Each gets the instance that the copy of
\* the map taken at the start of Each holds under the visited name, never nil.
C22_EachPassesSnapshotInstance ==
    \A t \in App : \A i \in 1..Len(hist.visited[t]) :
        LET v == hist.visited[t][i] IN
        /\ v.m # NoMetric
        /\ v.name \in DOMAIN hist.snapMap[t]
        /\ v.m = hist.snapMap[t][v.name]

\* C23: no increment of an InstantCounter is lost by export. Exported values
\* plus the current count stay equal to the increments applied exactly when
\* every Clear of the visitor removes the count the visitor has just exported:
\* at the step that clears, the counter holds what was read.
C23_NoIncrementLost ==
    [][LET m    == loc["optron"].arg
           name == VisitHead(loc["optron"].keys[loc["optron"].idx]).name
       IN  (/\ pc["optron"] = "clear" /\ pc'["optron"] = "each"
            /\ m # NoMetric /\ heap[m].kind = "Instant")
           => IntVal(heap[m].val) = opt.obj[name]]_vars

\* ---- one goroutine calling through the root, a view and a view of the view
ViewCalls ==
    {<<"root", "Register", <<"a">>, "Gauge", FALSE, 0>>,
     <<"api", "Register", <<"a">>, "Counter", FALSE, 0>>,
     <<"sub", "Register", <<"c">>, "Counter", FALSE, 0>>,
     <<"sub", "Unregister", <<"c">>, "none", FALSE, 0>>,
     <<"api", "UnregisterAll", <<>>, "none", FALSE, 0>>,
     <<"sub", "UnregisterAll", <<>>, "none", FALSE, 0>>}
    \cup {<<v, "Each", <<>>, "none", FALSE, 0>> : v \in {"root", "api", "sub"}}

NextView ==
    \/ \E a \in ViewCalls :
          /\ pc["g1"] \in {"idle", "visit"}
          /\ Call("g1", a[1], a[2], a[3], a[4], a[5], a[6])
    \/ Register("g1")
    \/ Unregister("g1")
    \/ UnregisterAll("g1")
    \/ Each("g1")
    \/ EachNext("g1")
    \/ VisitReturn("g1")
    \/ EachDone("g1")

SpecView == InitReg /\ [][NextView]_vars

\* The prefixes from the root down to a registry, concatenated
RECURSIVE PrefixPath(_)
PrefixPath(reg) ==
    IF Registries[reg].type = "Standard" THEN <<>>
    ELSE PrefixPath(Registries[reg].underlying) \o Registries[reg].prefix

\* C24: an UnregisterAll made through a prefixed view leaves every entry of the
\* root whose name does not start with the view's prefix registered as it was.
C24_ViewUnregisterAllFrame ==
    [][\A t \in App :
          (/\ req[t].op = "UnregisterAll" /\ pc[t] = "call" /\ pc'[t] # "call"
           /\ Registries[req[t].via].type = "Prefixed")
          => \A n \in DOMAIN metrics :
                ~HasPrefix(n, PrefixPath(req[t].via))
                   => n \in DOMAIN metrics' /\ metrics'[n] = metrics[n]]_vars

\* C25: Each through a view filters with the concatenation of the prefixes
\* from the root down to the view, and by its return has given the visitor
\* exactly the root names of its copy that start with it, in full.
C25_PrefixedEach ==
    [][\A t \in App :
          /\ (pc[t] = "call" /\ req[t].op = "Each" /\ pc'[t] = "each")
                => loc'[t].prefix = PrefixPath(req[t].via)
          /\ (pc[t] = "each" /\ hist'.eachEnd[t] /\ ~hist.eachEnd[t])
                => SeqRange(VisitedNames(t)) =
                      {n \in hist.snap[t] : HasPrefix(n, loc[t].prefix)}]_vars

\* An Each through the view of the view has returned after visiting "p.a.c"
\* alone, registered through it, while the root held "p.a" as well
C25_Witness ==
    \E t \in App :
        /\ hist.eachEnd[t]
        /\ VisitedNames(t) = << <<"p", ".", "a", ".", "c">> >>
        /\ hist.snap[t] = {<<"p", ".", "a">>, <<"p", ".", "a", ".", "c">>}

====
